---- MODULE Spec2Model ----
(***************************************************************************)
(* Model of the bitset library (bitset.h / bitset.c).                      *)
(*                                                                         *)
(* A bitset handle is the C struct { _Bool *bits; size_t len; }.  ptr[h]    *)
(* tells whether b->bits is NULL (0) or points to a buffer (LIVE), the     *)
(* pointed-to buffer is the sequence cells[h] (C index i is TLA+ index     *)
(* i + 1), and heap counts the buffers that calloc has handed out and      *)
(* free has not yet taken back.                                            *)
(* size_t is an unsigned integer of SIZE_BITS bits; the width is scaled    *)
(* down so that the multiplication of bitset_init_str can wrap inside the  *)
(* model's bounds the way it wraps at 2^64 in a real build.                *)
(***************************************************************************)
EXTENDS Integers, Sequences, FiniteSets

\* ---- bounds of the model -------------------------------------------------
MaxLen == 3
MaxN == 6
MaxStr == 2
MaxStrN == 3
MaxBuf == 2
MaxPairLen == 2
MaxPairN == 1

\* ---- program constants ---------------------------------------------------
BITSET_GOOD == 0
BITSET_NULL_ERR == 1
BITSET_ALLOC_ERR == 2
BITSET_LENGTH_ERR == 3
CHAR_LEN == 8
\* width of size_t, scaled down from 64
SIZE_BITS == 4
SIZE_MOD == 2 ^ SIZE_BITS

NULL == 0
LIVE == 1
H == {1, 2}
NoRet == -1
NoUndo == [some |-> FALSE, cells |-> <<>>, len |-> 0]

\* Bytes a caller's string may hold before its terminator: '1', 'A', 0xC8.
Chars == {49, 65, 200}
RECURSIVE StringsOf(_)
StringsOf(n) ==
    IF n = 0 THEN {<<>>}
    ELSE LET S == StringsOf(n - 1)
         IN S \cup {Append(s, c) : s \in {t \in S : Len(t) = n - 1}, c \in Chars}
\* a NULL string argument
NULLSTR == <<0>>
StrArgs == StringsOf(MaxStr) \cup {NULLSTR}
\* str[i] of a C string: the terminator 0 sits right after the last byte
CharAt(str, i) == IF i < Len(str) THEN str[i + 1] ELSE 0

VARIABLES ptr, cells, len, heap, released, fault, last
vars == <<ptr, cells, len, heap, released, fault, last>>

\* ---- libc helpers ----------------------------------------------------------
Zeros(n) == [i \in 1..n |-> FALSE]

\* memset(s + off, 0, cnt)
MemZero(s, off, cnt) ==
    [i \in 1..Len(s) |-> IF i > off /\ i <= off + cnt THEN FALSE ELSE s[i]]

\* memmove(s + dst, s + src, cnt): the copy behaves as if through a temporary
MemMove(s, dst, src, cnt) ==
    [i \in 1..Len(s) |-> IF i > dst /\ i <= dst + cnt THEN s[i - dst + src] ELSE s[i]]

\* memcpy(s + dst, t, Len(t)) from a buffer t that does not overlap s
MemWrite(s, dst, t) ==
    [i \in 1..Len(s) |-> IF i > dst /\ i <= dst + Len(t) THEN t[i - dst] ELSE s[i]]

\* the cells s[off .. off + cnt - 1] (C indices) copied out
Slice(s, off, cnt) == [i \in 1..cnt |-> s[off + i]]

\* the heap of the model holds at most MaxBuf buffers at a time
HeapFull == heap >= MaxBuf
\* the outcomes of calloc: NULL, or a buffer while the heap has room
AllocOutcomes == IF HeapFull THEN {NULL} ELSE {NULL, LIVE}
\* the outcomes of the malloc of a rotation's scratch buffer, which is freed
\* before the call returns
ScratchOutcomes == {NULL, LIVE}

IsNull(h) == h = NULL \/ ptr[h] = NULL

\* ---- the record of the latest call (history) -----------------------------
Call(op, h, r, n, str, ret, alloc, scratch, undo) ==
    [op |-> op, h |-> h, r |-> r, n |-> n, str |-> str, ret |-> ret,
     alloc |-> alloc, scratch |-> scratch, undo |-> undo,
     preptr |-> ptr, precells |-> cells, prelen |-> len, prereleased |-> released]

Init ==
    /\ ptr = [h \in H |-> NULL]
    /\ cells = [h \in H |-> <<>>]
    /\ len = [h \in H |-> 0]
    /\ heap = 0
    /\ released = [h \in H |-> FALSE]
    /\ fault = "none"
    /\ last = [op |-> "start", h |-> NULL, r |-> NULL, n |-> 0, str |-> <<>>,
               ret |-> NoRet, alloc |-> "none", scratch |-> 0, undo |-> NoUndo,
               preptr |-> [h \in H |-> NULL], precells |-> [h \in H |-> <<>>],
               prelen |-> [h \in H |-> 0], prereleased |-> [h \in H |-> FALSE]]

\* A call that returns ret and touches nothing.
Returns(op, h, r, n, str, ret) ==
    /\ last' = Call(op, h, r, n, str, ret, "none", 0, NoUndo)
    /\ UNCHANGED <<ptr, cells, len, heap, released, fault>>

\* A call that runs into undefined behaviour: the process is lost.
Faults(op, h, n, str, what) ==
    /\ fault' = what
    /\ last' = Call(op, h, NULL, n, str, NoRet, "none", 0, NoUndo)
    /\ UNCHANGED <<ptr, cells, len, heap, released>>

\* A call that rewrites the cells of h in place and returns BITSET_GOOD.
Rewrites(op, h, r, n, newcells) ==
    /\ cells' = [cells EXCEPT ![h] = newcells]
    /\ last' = Call(op, h, r, n, <<>>, BITSET_GOOD, "none", 0, NoUndo)
    /\ UNCHANGED <<ptr, len, heap, released, fault>>

\* ---- constructors ----------------------------------------------------------
\* b->len = newlen; b->bits = calloc(newlen, 1) with the outcome p (NULL or a
\* fresh buffer); filled is the fresh buffer after the constructor's loop.
Construct(op, h, n, str, newlen, p, filled) ==
    /\ len' = [len EXCEPT ![h] = newlen]
    /\ ptr' = [ptr EXCEPT ![h] = p]
    /\ cells' = [cells EXCEPT ![h] = IF p = NULL THEN <<>> ELSE filled]
    /\ heap' = IF p = NULL THEN heap ELSE heap + 1
    /\ released' = [released EXCEPT ![h] = IF p = NULL THEN @ ELSE FALSE]
    /\ fault' = fault
    /\ last' = Call(op, h, NULL, n, str,
                    IF p = NULL THEN BITSET_ALLOC_ERR ELSE BITSET_GOOD,
                    IF p = NULL THEN "fail" ELSE "ok", 0, NoUndo)

bitset_init(h, n) ==
    /\ fault = "none"
    /\ IF h = NULL \/ n = 0
       THEN Returns("init", h, NULL, n, <<>>, BITSET_NULL_ERR)
       ELSE \E p \in AllocOutcomes : Construct("init", h, n, <<>>, n, p, Zeros(n))

\* for (i = 0; i < n && str[i] != '\0'; i++) b->bits[i] = (str[i] == '1')
RECURSIVE BstrLoop(_, _, _, _)
BstrLoop(buf, str, n, i) ==
    IF i < n /\ CharAt(str, i) # 0
    THEN BstrLoop([buf EXCEPT ![i + 1] = (CharAt(str, i) = 49)], str, n, i + 1)
    ELSE buf

bitset_init_bstr(h, str, n) ==
    /\ fault = "none"
    /\ IF h = NULL \/ str = NULLSTR \/ n = 0
       THEN Returns("init_bstr", h, NULL, n, <<>>, BITSET_NULL_ERR)
       ELSE \E p \in AllocOutcomes :
              Construct("init_bstr", h, n, <<>>, n, p, BstrLoop(Zeros(n), str, n, 0))

\* do { bits[b--] = (c & 1); } while ((c >>= 1) > 0);
RECURSIVE BitsLoop(_, _, _)
BitsLoop(bits, b, c) ==
    LET set == [bits EXCEPT ![b + 1] = (c % 2 = 1)]
    IN IF c \div 2 > 0 THEN BitsLoop(set, b - 1, c \div 2) ELSE set

\* the static buffer is cleared, then filled from its last cell backwards;
\* the parameter is an unsigned char
bits_from_char(c) == BitsLoop(Zeros(CHAR_LEN), CHAR_LEN - 1, c % 256)

\* for (i = 0; i < n && str[i] != '\0'; i++)
\*     memcpy(b->bits + i * CHAR_LEN, bits_from_char(str[i]), CHAR_LEN)
\* oob tells that a memcpy would write past the end of the buffer.
RECURSIVE StrLoop(_, _, _, _)
StrLoop(buf, str, n, i) ==
    IF i < n /\ CharAt(str, i) # 0
    THEN IF i * CHAR_LEN + CHAR_LEN > Len(buf)
         THEN [oob |-> TRUE, buf |-> buf]
         ELSE StrLoop(MemWrite(buf, i * CHAR_LEN, bits_from_char(CharAt(str, i))),
                      str, n, i + 1)
    ELSE [oob |-> FALSE, buf |-> buf]

\* b->len = n * CHAR_LEN, in size_t arithmetic
StrLen(n) == (n * CHAR_LEN) % SIZE_MOD

bitset_init_str(h, str, n) ==
    /\ fault = "none"
    /\ IF h = NULL \/ str = NULLSTR \/ n = 0
       THEN Returns("init_str", h, NULL, n, str, BITSET_NULL_ERR)
       ELSE \E p \in AllocOutcomes :
              LET filled == StrLoop(Zeros(StrLen(n)), str, n, 0)
              IN IF p # NULL /\ filled.oob
                 THEN Faults("init_str", h, n, str, "oob")
                 ELSE Construct("init_str", h, n, str, StrLen(n), p, filled.buf)

\* ---- queries -------------------------------------------------------------
TrueLen(s) == Cardinality({i \in 1..Len(s) : s[i]})

bitset_true_len(h) ==
    /\ fault = "none"
    /\ Returns("true_len", h, NULL, 0, <<>>, IF IsNull(h) THEN 0 ELSE TrueLen(cells[h]))

bitset_all(h) ==
    /\ fault = "none"
    /\ Returns("all", h, NULL, 0, <<>>,
               IF IsNull(h) THEN 0
               ELSE IF \E i \in 1..len[h] : ~cells[h][i] THEN 0 ELSE 1)

bitset_any(h) ==
    /\ fault = "none"
    /\ Returns("any", h, NULL, 0, <<>>,
               IF IsNull(h) THEN 0
               ELSE IF \E i \in 1..len[h] : cells[h][i] THEN 1 ELSE 0)

\* ---- boolean operators -----------------------------------------------------
\* the length check rejecting only a left operand longer than the right one
OperandCheckOneSided(l, r) ==
    IF IsNull(l) \/ IsNull(r) THEN BITSET_NULL_ERR
    ELSE IF len[l] > len[r] THEN BITSET_LENGTH_ERR
    ELSE BITSET_GOOD

\* the two early returns shared by bitset_and, bitset_or and bitset_xor
OperandCheck(l, r) ==
    IF IsNull(l) \/ IsNull(r) THEN BITSET_NULL_ERR
    ELSE IF len[l] # len[r] THEN BITSET_LENGTH_ERR
    ELSE BITSET_GOOD

bitset_and(l, r) ==
    /\ fault = "none"
    /\ IF OperandCheck(l, r) # BITSET_GOOD
       THEN Returns("and", l, r, 0, <<>>, OperandCheck(l, r))
       ELSE Rewrites("and", l, r, 0,
                     [i \in 1..len[l] |-> cells[l][i] /\ cells[r][i]])

bitset_or(l, r) ==
    /\ fault = "none"
    /\ IF OperandCheck(l, r) # BITSET_GOOD
       THEN Returns("or", l, r, 0, <<>>, OperandCheck(l, r))
       ELSE Rewrites("or", l, r, 0,
                     [i \in 1..len[l] |-> cells[l][i] \/ cells[r][i]])

bitset_xor(l, r) ==
    /\ fault = "none"
    /\ IF OperandCheck(l, r) # BITSET_GOOD
       THEN Returns("xor", l, r, 0, <<>>, OperandCheck(l, r))
       ELSE Rewrites("xor", l, r, 0,
                     [i \in 1..len[l] |-> cells[l][i] # cells[r][i]])

bitset_not(h) ==
    /\ fault = "none"
    /\ IF IsNull(h)
       THEN Returns("not", h, NULL, 0, <<>>, BITSET_NULL_ERR)
       ELSE Rewrites("not", h, NULL, 0, [i \in 1..len[h] |-> ~cells[h][i]])

\* ---- shifts -----------------------------------------------------------------
\* the body of bitset_lsh for n > 0 on a buffer s of Len(s) = b->len cells
LshCells(s, n) ==
    IF n >= Len(s)
    THEN MemZero(s, 0, Len(s))
    ELSE LET sh == Len(s) - n
         IN MemZero(MemMove(s, 0, n, sh), sh, n)

\* bitset_rsh with the zero fill at the wrong end of the buffer
RshCellsWrongFill(s, n) ==
    IF n >= Len(s)
    THEN MemZero(s, 0, Len(s))
    ELSE LET sh == Len(s) - n
         IN MemZero(MemMove(s, n, 0, sh), sh, n)

\* the body of bitset_rsh for n > 0
RshCells(s, n) ==
    IF n >= Len(s)
    THEN MemZero(s, 0, Len(s))
    ELSE LET sh == Len(s) - n
         IN MemZero(MemMove(s, n, 0, sh), 0, n)

bitset_lsh(h, n) ==
    /\ fault = "none"
    /\ IF IsNull(h) THEN Returns("lsh", h, NULL, n, <<>>, BITSET_NULL_ERR)
       ELSE IF n = 0 THEN Returns("lsh", h, NULL, n, <<>>, BITSET_GOOD)
       ELSE Rewrites("lsh", h, NULL, n, LshCells(cells[h], n))

bitset_rsh(h, n) ==
    /\ fault = "none"
    /\ IF IsNull(h) THEN Returns("rsh", h, NULL, n, <<>>, BITSET_NULL_ERR)
       ELSE IF n = 0 THEN Returns("rsh", h, NULL, n, <<>>, BITSET_GOOD)
       ELSE Rewrites("rsh", h, NULL, n, RshCells(cells[h], n))

\* ---- rotations --------------------------------------------------------------
\* a scratch buffer as long as the whole bitset
ScratchCellsFullCopy(n, l) == l

\* n %= b->len: the number of cells malloc is asked for
ScratchCells(n, l) == n % l

\* bitset_lrot without the copy of temp back into the tail
LRotCellsNoWriteBack(s, k) == MemMove(s, 0, k, Len(s) - k)

\* temp <- the first k cells; the other rot cells move down; temp goes last
LRotCells(s, k) ==
    LET rot == Len(s) - k
        temp == Slice(s, 0, k)
    IN MemWrite(MemMove(s, 0, k, rot), rot, temp)

\* bitset_rrot staging the first k cells instead of the last k
RRotCellsWrongSide(s, k) ==
    LET rot == Len(s) - k
        temp == Slice(s, 0, k)
    IN MemWrite(MemMove(s, k, 0, rot), 0, temp)

\* temp <- the last k cells; the other rot cells move up; temp goes first
RRotCells(s, k) ==
    LET rot == Len(s) - k
        temp == Slice(s, rot, k)
    IN MemWrite(MemMove(s, k, 0, rot), 0, temp)

\* what a bitset_rrot(h, n) would undo: the bitset before the call just made,
\* when that call was a successful bitset_lrot(h, n)
Undoes(h, n) ==
    IF last.op = "lrot" /\ last.h = h /\ last.n = n /\ last.ret = BITSET_GOOD
    THEN [some |-> TRUE, cells |-> last.precells[h], len |-> last.prelen[h]]
    ELSE NoUndo

\* n % b->len == 0: nothing to rotate
RotNothing(op, h, n, undo) ==
    /\ last' = Call(op, h, NULL, n, <<>>, BITSET_GOOD, "none", 0, undo)
    /\ UNCHANGED <<ptr, cells, len, heap, released, fault>>

\* the cells moved before temp is looked at
RotFailsAfterMove(op, h, n, undo) ==
    /\ cells' = [cells EXCEPT
                   ![h] = MemMove(@, 0, n % len[h], len[h] - (n % len[h]))]
    /\ last' = Call(op, h, NULL, n, <<>>, BITSET_ALLOC_ERR, "fail",
                    ScratchCells(n, len[h]), undo)
    /\ UNCHANGED <<ptr, len, heap, released, fault>>

\* temp == NULL: ret stays BITSET_ALLOC_ERR and the if-body is skipped
RotFails(op, h, n, undo) ==
    /\ last' = Call(op, h, NULL, n, <<>>, BITSET_ALLOC_ERR, "fail",
                    ScratchCells(n, len[h]), undo)
    /\ UNCHANGED <<ptr, cells, len, heap, released, fault>>

\* temp != NULL: the three copies, free(temp), ret = BITSET_GOOD
RotDone(op, h, n, newcells, undo) ==
    /\ cells' = [cells EXCEPT ![h] = newcells]
    /\ last' = Call(op, h, NULL, n, <<>>, BITSET_GOOD, "ok",
                    ScratchCells(n, len[h]), undo)
    /\ UNCHANGED <<ptr, len, heap, released, fault>>

bitset_lrot(h, n) ==
    /\ fault = "none"
    /\ IF IsNull(h) THEN Returns("lrot", h, NULL, n, <<>>, BITSET_NULL_ERR)
       ELSE IF len[h] = 0 THEN Faults("lrot", h, n, <<>>, "div0")
       ELSE IF n % len[h] = 0 THEN RotNothing("lrot", h, n, NoUndo)
       ELSE \E temp \in ScratchOutcomes :
              IF temp = NULL
              THEN RotFails("lrot", h, n, NoUndo)
              ELSE RotDone("lrot", h, n, LRotCells(cells[h], n % len[h]), NoUndo)

bitset_rrot(h, n) ==
    /\ fault = "none"
    /\ IF IsNull(h) THEN Returns("rrot", h, NULL, n, <<>>, BITSET_NULL_ERR)
       ELSE IF len[h] = 0 THEN Faults("rrot", h, n, <<>>, "div0")
       ELSE IF n % len[h] = 0 THEN RotNothing("rrot", h, n, Undoes(h, n))
       ELSE \E temp \in ScratchOutcomes :
              IF temp = NULL
              THEN RotFails("rrot", h, n, Undoes(h, n))
              ELSE RotDone("rrot", h, n, RRotCells(cells[h], n % len[h]), Undoes(h, n))

\* ---- reset and release ----------------------------------------------------
bitset_reset(h) ==
    /\ fault = "none"
    /\ cells' = IF IsNull(h) THEN cells
                ELSE [cells EXCEPT ![h] = [i \in 1..len[h] |-> FALSE]]
    /\ last' = Call("reset", h, NULL, 0, <<>>, NoRet, "none", 0, NoUndo)
    /\ UNCHANGED <<ptr, len, heap, released, fault>>

\* bitset_free without b->bits = NULL: the pointer is left dangling
bitset_free_keeps_pointer(h) ==
    /\ fault = "none"
    /\ last' = Call("free", h, NULL, 0, <<>>, NoRet, "none", 0, NoUndo)
    /\ IF h = NULL
       THEN UNCHANGED <<ptr, cells, len, heap, released, fault>>
       ELSE /\ heap' = IF ptr[h] = NULL \/ heap = 0 THEN heap ELSE heap - 1
            /\ fault' = IF ptr[h] # NULL /\ heap = 0 THEN "double_free" ELSE fault
            /\ released' = [released EXCEPT ![h] = TRUE]
            /\ UNCHANGED <<ptr, cells, len>>

\* free(b->bits); b->bits = NULL.  free(NULL) does nothing; freeing a pointer
\* whose buffer is not allocated is a double free.
bitset_free(h) ==
    /\ fault = "none"
    /\ last' = Call("free", h, NULL, 0, <<>>, NoRet, "none", 0, NoUndo)
    /\ IF h = NULL
       THEN UNCHANGED <<ptr, cells, len, heap, released, fault>>
       ELSE /\ heap' = IF ptr[h] = NULL \/ heap = 0 THEN heap ELSE heap - 1
            /\ fault' = IF ptr[h] # NULL /\ heap = 0 THEN "double_free" ELSE fault
            /\ ptr' = [ptr EXCEPT ![h] = NULL]
            /\ cells' = [cells EXCEPT ![h] = <<>>]
            /\ released' = [released EXCEPT ![h] = TRUE]
            /\ len' = len

\* ---- specifications -------------------------------------------------------
\* One handle (and the NULL handle), every operation but bitset_init_str.
Next ==
    \/ \E h \in {1, NULL}, n \in 0..MaxLen : bitset_init(h, n)
    \/ \E h \in {1, NULL}, str \in StrArgs, n \in 0..MaxLen : bitset_init_bstr(h, str, n)
    \/ \E h \in {1, NULL} : bitset_true_len(h)
    \/ \E h \in {1, NULL} : bitset_all(h)
    \/ \E h \in {1, NULL} : bitset_any(h)
    \/ \E l \in {1, NULL}, r \in {1, NULL} : bitset_and(l, r)
    \/ \E l \in {1, NULL}, r \in {1, NULL} : bitset_or(l, r)
    \/ \E l \in {1, NULL}, r \in {1, NULL} : bitset_xor(l, r)
    \/ \E h \in {1, NULL} : bitset_not(h)
    \/ \E h \in {1, NULL}, n \in 0..MaxN : bitset_lsh(h, n)
    \/ \E h \in {1, NULL}, n \in 0..MaxN : bitset_rsh(h, n)
    \/ \E h \in {1, NULL}, n \in 0..MaxN : bitset_lrot(h, n)
    \/ \E h \in {1, NULL}, n \in 0..MaxN : bitset_rrot(h, n)
    \/ \E h \in {1, NULL} : bitset_reset(h)
    \/ \E h \in {1, NULL} : bitset_free(h)

Spec == Init /\ [][Next]_vars

\* One handle built from byte strings, rotated, queried and released.
NextStr ==
    \/ \E str \in StrArgs, n \in 0..MaxStrN : bitset_init_str(1, str, n)
    \/ \E n \in 0..MaxN : bitset_lrot(1, n)
    \/ \E n \in 0..MaxN : bitset_rrot(1, n)
    \/ bitset_true_len(1)
    \/ bitset_free(1)

SpecStr == Init /\ [][NextStr]_vars

\* Two handles of at most MaxPairLen cells, for the two-operand operators.
NextPair ==
    \/ \E h \in H, n \in 0..MaxPairLen : bitset_init(h, n)
    \/ \E h \in H : bitset_true_len(h)
    \/ \E h \in H : bitset_all(h)
    \/ \E h \in H : bitset_any(h)
    \/ \E l \in H, r \in H : bitset_and(l, r)
    \/ \E l \in H, r \in H : bitset_or(l, r)
    \/ \E l \in H, r \in H : bitset_xor(l, r)
    \/ \E h \in H : bitset_not(h)
    \/ \E h \in H, n \in 0..MaxPairN : bitset_lsh(h, n)
    \/ \E h \in H, n \in 0..MaxPairN : bitset_rsh(h, n)
    \/ \E h \in H, n \in 0..MaxPairN : bitset_lrot(h, n)
    \/ \E h \in H, n \in 0..MaxPairN : bitset_rrot(h, n)
    \/ \E h \in H : bitset_reset(h)
    \/ \E h \in H : bitset_free(h)

SpecPair == Init /\ [][NextPair]_vars
\* ---- claims -------------------------------------------------------------------
\* the latest call was op on a bitset whose buffer was present
OnInitialized(op) ==
    /\ last.op = op
    /\ last.h # NULL
    /\ last.preptr[last.h] # NULL

Unchanged(h) ==
    /\ cells[h] = last.precells[h]
    /\ len[h] = last.prelen[h]
    /\ ptr[h] = last.preptr[h]

\* both values occur among the cells
Mixed(s) == (\E i \in 1..Len(s) : s[i]) /\ (\E i \in 1..Len(s) : ~s[i])

\* C1: a successful bitset_lrot(b, k) followed at once by a successful
\* bitset_rrot(b, k) leaves the cells and len of b as they were before the
\* two calls, for every k >= 0.
C1_RotRoundTrip ==
    (last.op = "rrot" /\ last.ret = BITSET_GOOD /\ last.undo.some)
        => /\ cells[last.h] = last.undo.cells
           /\ len[last.h] = last.undo.len

\* C1 happens: the pair was made with k beyond len, not a multiple of it, on
\* cells that a wrong rotation would disturb
C1_Witness ==
    /\ last.op = "rrot" /\ last.ret = BITSET_GOOD /\ last.undo.some
    /\ last.n > len[last.h] /\ last.n % len[last.h] # 0
    /\ len[last.h] = MaxLen
    /\ Mixed(cells[last.h])

\* C2: with k = n mod len, a successful bitset_lrot gives new[i] =
\* old[(i + k) mod len] and a successful bitset_rrot gives new[(i + k) mod len]
\* = old[i] for every index i; len and the population count do not change; when
\* k = 0 the call succeeds and the bitset is unchanged.
C2_RotPermutes ==
    \A op \in {"lrot", "rrot"} :
        (OnInitialized(op) /\ last.prelen[last.h] > 0) =>
            LET h == last.h
                L == last.prelen[h]
                k == last.n % L
                old == last.precells[h]
                new == cells[h]
            IN /\ (k = 0) => (last.ret = BITSET_GOOD /\ Unchanged(h))
               /\ (last.ret = BITSET_GOOD) =>
                    /\ len[h] = L /\ Len(new) = L
                    /\ \A i \in 0..(L - 1) :
                         IF op = "lrot"
                         THEN new[i + 1] = old[((i + k) % L) + 1]
                         ELSE new[((i + k) % L) + 1] = old[i + 1]
                    /\ TrueLen(new) = TrueLen(old)

\* C2 happens: a left rotation by an amount beyond len moved mixed cells
C2_Witness ==
    /\ OnInitialized("lrot") /\ last.ret = BITSET_GOOD
    /\ last.n > len[last.h] /\ last.n % len[last.h] = 1
    /\ len[last.h] = MaxLen
    /\ Mixed(cells[last.h])
    /\ cells[last.h] # last.precells[last.h]

\* C3: bitset_lsh and bitset_rsh on an initialized bitset return success and
\* keep len; n = 0 changes nothing, n >= len clears every cell, and for
\* 0 < n < len the left shift gives new[i] = old[i + n] below len - n and false
\* from there on, the right shift new[i] = old[i - n] from n on and false below.
C3_Shift ==
    \A op \in {"lsh", "rsh"} :
        OnInitialized(op) =>
            LET h == last.h
                L == last.prelen[h]
                n == last.n
                old == last.precells[h]
                new == cells[h]
            IN /\ last.ret = BITSET_GOOD
               /\ len[h] = L /\ Len(new) = L /\ ptr[h] # NULL
               /\ (n = 0) => new = old
               /\ (n >= L) => \A i \in 0..(L - 1) : ~new[i + 1]
               /\ (0 < n /\ n < L) =>
                    \A i \in 0..(L - 1) :
                        IF op = "lsh"
                        THEN new[i + 1] = (IF i < L - n THEN old[i + n + 1] ELSE FALSE)
                        ELSE new[i + 1] = (IF i >= n THEN old[i - n + 1] ELSE FALSE)

\* C3 happens: a right shift by 0 < n < len moved a true cell and kept it
C3_Witness ==
    /\ OnInitialized("rsh") /\ last.ret = BITSET_GOOD
    /\ 0 < last.n /\ last.n < len[last.h]
    /\ TrueLen(cells[last.h]) > 0
    /\ TrueLen(cells[last.h]) < TrueLen(last.precells[last.h])
BinaryOps == {"and", "or", "xor"}
UnaryOps == {"not", "lsh", "rsh", "lrot", "rrot"}
Rotations == {"lrot", "rrot"}

\* C4: bitset_and, bitset_or and bitset_xor on two initialized bitsets of
\* different len return BITSET_LENGTH_ERR and leave the cells and len of both
\* operands as they were.
C4_LengthMismatch ==
    (/\ last.op \in BinaryOps
     /\ last.h # NULL /\ last.r # NULL
     /\ last.preptr[last.h] # NULL /\ last.preptr[last.r] # NULL
     /\ last.prelen[last.h] # last.prelen[last.r])
        => /\ last.ret = BITSET_LENGTH_ERR
           /\ Unchanged(last.h)
           /\ Unchanged(last.r)

\* C4 happens: the left operand was the shorter one and the operands held true
\* cells the operator would have combined
C4_Witness ==
    /\ last.op = "xor" /\ last.ret = BITSET_LENGTH_ERR
    /\ len[last.h] < len[last.r]
    /\ cells[last.h][1] /\ cells[last.r][1]

\* C5: from bitset_free on a bitset until the next successful constructor call
\* on it, its buffer is absent; the operators (with it as either operand), not,
\* the shifts and the rotations return BITSET_NULL_ERR and change nothing;
\* bitset_reset and bitset_free change nothing; bitset_true_len returns 0 and
\* bitset_all and bitset_any return false.
C5_ReleasedIsInert ==
    /\ \A h \in H : released[h] => (ptr[h] = NULL /\ cells[h] = <<>>)
    /\ (/\ last.op \in BinaryOps \cup UnaryOps
        /\ last.h # NULL
        /\ \/ last.prereleased[last.h]
           \/ last.op \in BinaryOps /\ last.r # NULL /\ last.prereleased[last.r])
         => /\ last.ret = BITSET_NULL_ERR
            /\ \A h \in H : Unchanged(h)
    /\ (last.op \in {"reset", "free"} /\ last.h # NULL /\ last.prereleased[last.h])
         => /\ \A h \in H : Unchanged(h)
            /\ released[last.h]
    /\ (last.op \in {"true_len", "all", "any"} /\ last.h # NULL
            /\ last.prereleased[last.h])
         => /\ last.ret = 0
            /\ \A h \in H : Unchanged(h)

\* C5 happens: an operator was called with an initialized left operand holding
\* true cells and a released right operand that had held a buffer
C5_Witness ==
    /\ last.op = "or" /\ last.h # NULL /\ last.r # NULL
    /\ last.prereleased[last.r] /\ ~last.prereleased[last.h]
    /\ last.prelen[last.r] > 0
    /\ ptr[last.h] # NULL /\ cells[last.h][1]

\* C7: when the scratch allocation of a bitset_lrot or bitset_rrot with
\* n mod len # 0 fails, the call returns BITSET_ALLOC_ERR and the cells and len
\* are as before the call.
C7_RotAllocFailure ==
    (last.op \in Rotations /\ last.alloc = "fail")
        => /\ last.ret = BITSET_ALLOC_ERR
           /\ Unchanged(last.h)
           /\ last.n % last.prelen[last.h] # 0

\* C7 happens: the allocation failed on a bitset a half-done rotation would
\* have changed
C7_Witness ==
    /\ last.op = "lrot" /\ last.alloc = "fail"
    /\ len[last.h] = MaxLen
    /\ Mixed(cells[last.h])
    /\ cells[last.h][1] # cells[last.h][2]

SmallerSide(k, l) == IF k <= l - k THEN k ELSE l - k

\* C8 as stated: the scratch buffer of a rotation with k = n mod len > 0 holds
\* exactly min(k, len - k) cells.
C8_ScratchIsSmallerSide ==
    \A op \in Rotations :
        (OnInitialized(op) /\ last.prelen[last.h] > 0
            /\ last.n % last.prelen[last.h] > 0)
          => last.scratch = SmallerSide(last.n % last.prelen[last.h],
                                        last.prelen[last.h])

\* C8 amended: the scratch buffer of a rotation with k = n mod len > 0 holds
\* exactly k cells, at least one and fewer than len (never a full-length copy);
\* that is the smaller side only when k <= len - k.
C8_ScratchIsRotationAmount ==
    \A op \in Rotations :
        (OnInitialized(op) /\ last.prelen[last.h] > 0
            /\ last.n % last.prelen[last.h] > 0)
          => /\ last.scratch = last.n % last.prelen[last.h]
             /\ last.scratch >= 1
             /\ last.scratch < last.prelen[last.h]

\* C8 happens: a rotation whose amount is the larger of the two sides
C8_Witness ==
    /\ OnInitialized("rrot") /\ last.ret = BITSET_GOOD
    /\ last.scratch = 2 /\ len[last.h] = 3

\* C9: no buffer is deallocated twice, and every buffer that is allocated is
\* referred to by a bitset.
C9_FreedExactlyOnce ==
    /\ fault # "double_free"
    /\ heap = Cardinality({h \in H : ptr[h] # NULL})

\* bit p (0 = least significant) of the byte c
BitOf(c, p) == (c \div (2 ^ p)) % 2 = 1

\* C6: a successful bitset_init_str(b, str, n) with n > 0 gives len = 8 * n;
\* cell 8 * j + t is bit 7 - t of str[j] for every j < n before the terminator
\* and every t in 0..7, and every cell of a later slice is false; 'A' over
\* length 1 gives 0,1,0,0,0,0,0,1.
C6_InitStrExpands ==
    (last.op = "init_str" /\ last.ret = BITSET_GOOD /\ last.n > 0) =>
        LET h == last.h
            n == last.n
            str == last.str
        IN /\ len[h] = CHAR_LEN * n
           /\ Len(cells[h]) = CHAR_LEN * n
           /\ \A j \in 0..(n - 1), t \in 0..(CHAR_LEN - 1) :
                cells[h][CHAR_LEN * j + t + 1] =
                    (IF j < Len(str) THEN BitOf(str[j + 1], CHAR_LEN - 1 - t) ELSE FALSE)
           /\ (str = <<65>> /\ n = 1) =>
                cells[h] = <<FALSE, TRUE, FALSE, FALSE, FALSE, FALSE, FALSE, TRUE>>

\* C6 within the range of size_t: the same, for the n whose 8 * n does not wrap
C6_InitStrExpandsInRange ==
    (last.op = "init_str" /\ last.n * CHAR_LEN < SIZE_MOD) => C6_InitStrExpands

\* C10: a bitset whose buffer is present has len > 0 and a buffer of len
\* cells; operators, shifts, rotations and reset do not change len; the
\* rotations never take n mod len with len = 0, and return BITSET_NULL_ERR on
\* an absent buffer.
C10_LenPositive ==
    /\ \A h \in H : ptr[h] # NULL => (len[h] > 0 /\ Len(cells[h]) = len[h])
    /\ (last.op \in BinaryOps \cup UnaryOps \cup {"reset"}) => len = last.prelen
    /\ fault # "div0"
    /\ (last.op \in Rotations /\ last.h # NULL /\ last.preptr[last.h] = NULL)
         => last.ret = BITSET_NULL_ERR

\* C10, the last step of the failure: a rotation divided by a len of 0
C10_NoDivisionByZero == fault # "div0"
====
